---- MODULE Spec2Model ----
(***************************************************************************)
(* Conversation / message orchestration of the chatbot backend:            *)
(*   - the HTTP handler sendMessage (src/src/functions/sendMessage.ts),    *)
(*   - the assistant round trip handleMessageForOpenAI and the citation    *)
(*     stripper processOpenAIMessage (OpenAIHandler, src/unnamed/part_001),*)
(*   - the Slack bot and slash handlers (src/unnamed/part_002).            *)
(*                                                                         *)
(* Texts are sequences of tokens.  Timestamps are milliseconds of one      *)
(* wall clock; the assistant provider stamps its thread messages in whole  *)
(* seconds of the same clock.  The relational store is the tables          *)
(* conversations, contacts and messages; the assistant provider is the     *)
(* table threads.  The variable last records what the most recent handler  *)
(* invocation read, did and answered.                                      *)
(*                                                                         *)
(* Spec is sendMessage over a store whose statements execute; SpecTools    *)
(* is its tool round, where the UPDATE of the contact may also fail;       *)
(* SpecFault adds the rejected batch INSERT; SpecHandler is                *)
(* handleMessageForOpenAI and SpecRound the tool round of both entry       *)
(* points; SpecSlack is the Slack bot and slash handlers, SpecSlackFault   *)
(* the same handlers with one awaited step rejecting; SpecAll is the three *)
(* entry points over one store; SpecSlackRace and SpecSendRace are the     *)
(* Slack bot handler and sendMessage one await at a time, two invocations  *)
(* in flight; SpecStrip applies the citation stripper to bounded texts.    *)
(***************************************************************************)
EXTENDS Integers, Sequences, FiniteSets, TLC

\* ------------------------------------------------------------------ bounds
MaxClock == 1000
StepMs == 500
MaxMessages == 3
MaxThread == 3
MaxReplies == 2
MaxToolCalls == 2
MaxTextLen == 4
MaxAnnotations == 2
MaxPasses == 2
MaxEmitted == 5
MaxStored == 4

\* ------------------------------------------------------- program constants
MsPerSecond == 1000
ListLimit == 5
NegInfinity == -1

\* --------------------------------------------------------------- utilities
Undefined == "undefined"
Null == "null"

Range(s) == {s[i] : i \in DOMAIN s}

SeqMax(s) == IF s = <<>> THEN NegInfinity
             ELSE CHOOSE m \in Range(s) : \A x \in Range(s) : x <= m

Reverse(s) == [i \in DOMAIN s |-> s[Len(s) + 1 - i]]

\* Array.prototype.findIndex over the results of the callback: the 0-based
\* index of the first element for which it is true, or -1
FindIndex(hits) ==
    IF \E i \in DOMAIN hits : hits[i]
    THEN (CHOOSE i \in DOMAIN hits : hits[i] /\ \A j \in 1..(i - 1) : ~hits[j]) - 1
    ELSE -1

\* Array.prototype.slice(0, end): a negative end counts from the end
Slice0(s, end) ==
    LET e == IF end < 0 THEN (IF Len(s) + end < 0 THEN 0 ELSE Len(s) + end)
             ELSE (IF end > Len(s) THEN Len(s) ELSE end)
    IN  SubSeq(s, 1, e)

\* ------------------------------------------------------------------ domains
ConvIds == {"conv_1", "conv_2"}
ContIds == {"cont_1", "cont_2", "cont_3"}
OrgIds == {"org_1"}
Creators == {"CONTACT", "USER", "AGENT"}
Statuses == {"OPEN", "CLOSED", "DRAFT"}
RunStatuses == {"completed", "requires_action", "failed", "cancelled", "expired"}
InboundTexts == {<<"hi">>}

\* thread_id = conversation_id.replace("conv_", "thread_")
ThreadIdOf(conversation_id) ==
    CASE conversation_id = "conv_1" -> "thread_1"
      [] conversation_id = "conv_2" -> "thread_2"
      [] OTHER -> conversation_id

VARIABLES clock, conversations, contacts, messages, threads, last,
          stripIn, stripOut, inflight

vars == <<clock, conversations, contacts, messages, threads, last,
          stripIn, stripOut, inflight>>

sysvars == <<clock, conversations, contacts, messages, threads, last>>

\* ------------------------------------------------------------------ strings
\* A string value that the handlers pass around is either a literal text
\* (lit # "") or the text of a JSON object over the contact columns; ws
\* tells whether the JSON text carries insignificant white space.
Fields == {"name", "email", "phone"}
FieldValues(f) ==
    CASE f = "name" -> {"Ann"}
      [] f = "email" -> {"a@b.com", "c@d.com"}
      [] f = "phone" -> {"555"}

EmptyObj == [f \in Fields |-> Undefined]
Lit(s) == [lit |-> s, obj |-> EmptyObj, ws |-> FALSE]
JsonText(o, w) == [lit |-> "", obj |-> o, ws |-> w]

\* JSON.parse: throws on a text that is no JSON; white space is dropped
JSONParse(data) == [ok |-> data.lit = "", value |-> data.obj]

\* JSON.stringify: the canonical text, members that are undefined left out
JSONStringify(details) == JsonText(details, FALSE)

SuccessAck == Lit("{ \"success\": \"true\" }")
CantParse == Lit("Can't parse details")

\* ----------------------------------------------------------------- contacts
NewContact(organisation_id, name, email, phone, slack_id) ==
    [exists |-> TRUE, organisation_id |-> organisation_id, name |-> name,
     email |-> email, phone |-> phone, slack_id |-> slack_id]

\* db.updateTable("contacts").set({name, email, phone}).where("id", "=", id):
\* a column whose value is undefined is left out of the statement
UpdateContact(tbl, contact_id, details) ==
    IF tbl[contact_id].exists
    THEN [tbl EXCEPT ![contact_id] =
            [@ EXCEPT !.name = IF details.name = Undefined THEN @ ELSE details.name,
                      !.email = IF details.email = Undefined THEN @ ELSE details.email,
                      !.phone = IF details.phone = Undefined THEN @ ELSE details.phone]]
    ELSE tbl

\* saveContactDetails: the string it resolves to.  executes tells whether the
\* UPDATE statement executed; a throw of JSON.parse or of the statement is
\* caught and answered with the failure string.
SaveContactDetailsMutantRaw(data, executes) ==
    IF JSONParse(data).ok /\ executes THEN data ELSE CantParse

SaveContactDetails(data, executes) ==
    IF JSONParse(data).ok /\ executes
    THEN JSONStringify(JSONParse(data).value)
    ELSE CantParse

\* whether saveContactDetails changes the contact row for this tool call
Writes(tc, executes) ==
    tc.name = "save_contact_details" /\ JSONParse(tc.arguments).ok /\ executes

\* The callbacks of tool_calls.map(async ...) issue their UPDATE statements
\* without awaiting one another: the store executes them in some order.
RECURSIVE ApplyUpdates(_, _, _, _, _)
ApplyUpdates(tbl, contact_id, tool_calls, executes, order) ==
    IF order = <<>> THEN tbl
    ELSE LET i == Head(order)
             next == IF Writes(tool_calls[i], executes[i])
                     THEN UpdateContact(tbl, contact_id,
                                        JSONParse(tool_calls[i].arguments).value)
                     ELSE tbl
         IN  ApplyUpdates(next, contact_id, tool_calls, executes, Tail(order))

Perms(n) == {p \in [1..n -> 1..n] : \A i, j \in 1..n : p[i] = p[j] => i = j}

\* the orders that can differ in their result: any order when two statements
\* write different values to one column, else the order of the calls
Orders(tool_calls, executes) ==
    IF \E i, j \in DOMAIN tool_calls : \E f \in Fields :
          /\ Writes(tool_calls[i], executes[i])
          /\ Writes(tool_calls[j], executes[j])
          /\ JSONParse(tool_calls[i].arguments).value[f] # Undefined
          /\ JSONParse(tool_calls[j].arguments).value[f] # Undefined
          /\ JSONParse(tool_calls[i].arguments).value[f]
                # JSONParse(tool_calls[j].arguments).value[f]
    THEN Perms(Len(tool_calls))
    ELSE {[i \in DOMAIN tool_calls |-> i]}

\* tool_calls.map(async (tc) => ...): one output per tool call, in order
ToolOutputMutantAnyName(tc, executes) ==
    [tool_call_id |-> tc.id,
     output |-> SaveContactDetails(tc.arguments, executes)]

ToolOutput(tc, executes) ==
    [tool_call_id |-> tc.id,
     output |-> IF tc.name = "save_contact_details"
                THEN SaveContactDetails(tc.arguments, executes)
                ELSE SuccessAck]

ToolOutputsMutantOmit(tool_calls, executes) ==
    LET answered == SelectSeq([i \in DOMAIN tool_calls |->
                                  [tc |-> tool_calls[i], ex |-> executes[i]]],
                              LAMBDA x : x.tc.name # "save_contact_details"
                                         \/ (JSONParse(x.tc.arguments).ok /\ x.ex))
    IN  [i \in DOMAIN answered |-> ToolOutput(answered[i].tc, answered[i].ex)]

ToolOutputs(tool_calls, executes) ==
    [i \in DOMAIN tool_calls |-> ToolOutput(tool_calls[i], executes[i])]

\* ------------------------------------------------------- assistant provider
\* A thread message: role, the type of content[0], its text value, the
\* texts of its annotations, created_at in seconds.
ThreadMessage(role, type, value, annotations, at) ==
    [role |-> role, type |-> type, value |-> value,
     annotations |-> annotations, created_at |-> at]

\* openai.beta.threads.messages.list: newest first
MessagesListAll(thread) == Reverse(thread)

MessagesList(thread, limit) ==
    LET all == Reverse(thread)
    IN  SubSeq(all, 1, IF Len(all) < limit THEN Len(all) ELSE limit)

IsUser(m) == m.role = "user"
IsText(m) == m.type = "text"

\* messages.data.slice(0, messages.data.findIndex((m) => m.role === "user"))
SinceLastUser(data) ==
    Slice0(data, FindIndex([i \in DOMAIN data |-> IsUser(data[i])]))

\* ------------------------------------------------------- citation stripping
\* String.prototype.indexOf: 1-based position of the first occurrence, or 0
IndexOf(s, t) ==
    IF \E i \in 1..(Len(s) - Len(t) + 1) : SubSeq(s, i, i + Len(t) - 1) = t
    THEN CHOOSE i \in 1..(Len(s) - Len(t) + 1) :
            /\ SubSeq(s, i, i + Len(t) - 1) = t
            /\ \A j \in 1..(i - 1) : SubSeq(s, j, j + Len(t) - 1) # t
    ELSE 0

\* messageTextContent.replace(annotation.text, ""): the first occurrence only
ReplaceFirst(s, t) ==
    LET i == IndexOf(s, t)
    IN  IF i = 0 THEN s
        ELSE SubSeq(s, 1, i - 1) \o SubSeq(s, i + Len(t), Len(s))

\* for (const annotation of annotations) text = text.replace(annotation.text, "")
RECURSIVE StripAnnotations(_, _)
StripAnnotations(text, annotations) ==
    IF annotations = <<>> THEN text
    ELSE StripAnnotations(ReplaceFirst(text, Head(annotations)), Tail(annotations))

\* new MessageResponse(conversation_id, message, creator, created_at)
MessageResponse(conversation_id, message, creator, created_at) ==
    [conversation_id |-> conversation_id, message |-> message,
     creator |-> creator, created_at |-> created_at]

NoMessage == MessageResponse("", <<>>, "", 0)

\* processOpenAIMessage: undefined for content that is not text
ProcessOpenAIMessage(message, conversation_id) ==
    IF message.type = "text"
    THEN MessageResponse(conversation_id,
                         StripAnnotations(message.value, message.annotations),
                         "AGENT", message.created_at * MsPerSecond)
    ELSE Undefined

\* sendMessage.ts lines 124-132: the text value as it is, no stripping
PlainMessage(message, conversation_id) ==
    MessageResponse(conversation_id, message.value, "AGENT",
                    message.created_at * MsPerSecond)

\* --------------------------------------------------- what the provider does
\* A run is scripted by the environment: the status createAndPoll returns,
\* the tool calls it asks for, the status submitToolOutputsAndPoll returns,
\* and the assistant messages the run leaves on the thread, each a content
\* and the time that passed before it was written.
TextContents == {[type |-> "text", value |-> <<"Hello!">>, annotations |-> <<>>]}
CitedContents ==
    {[type |-> "text", value |-> <<"See", "[1]", "and", "[1]">>,
      annotations |-> << <<"[1]">> >>]}
OtherContents == {[type |-> "image_file", value |-> <<>>, annotations |-> <<>>]}
Delays == {0, StepMs}

SeqsUpTo(S, n) == UNION {[1..k -> S] : k \in 0..n}

Replies(contents) ==
    SeqsUpTo({[content |-> c, delay |-> d] : c \in contents, d \in Delays},
             MaxReplies)

SaveArguments ==
    {Lit("not json"),
     JsonText(EmptyObj, FALSE),
     JsonText([EmptyObj EXCEPT !.email = "a@b.com"], TRUE),
     JsonText([EmptyObj EXCEPT !.email = "c@d.com"], FALSE),
     JsonText([EmptyObj EXCEPT !.name = "Ann", !.phone = "555"], FALSE)}

ToolCallAt(i) ==
    {[id |-> IF i = 1 THEN "call_1" ELSE IF i = 2 THEN "call_2" ELSE "call_3",
      name |-> "save_contact_details", arguments |-> a] : a \in SaveArguments}
    \cup {[id |-> IF i = 1 THEN "call_1" ELSE IF i = 2 THEN "call_2" ELSE "call_3",
           name |-> "get_weather", arguments |-> JsonText(EmptyObj, FALSE)]}

\* the tool calls of one requires_action: distinct ids, at least one call
ToolCallSeqs ==
    {tcs \in UNION {[1..k -> UNION {ToolCallAt(i) : i \in 1..MaxToolCalls}] :
                        k \in 1..MaxToolCalls} :
        \A i \in DOMAIN tcs : tcs[i] \in ToolCallAt(i)}

\* Whether each UPDATE of the contact executes.  A statement that sets no
\* column is built outside this repository: it may execute or be rejected.
\* faults: the store may reject any statement.
Executes(tool_calls, faults) ==
    {e \in [DOMAIN tool_calls -> BOOLEAN] :
        \A i \in DOMAIN tool_calls :
            \/ e[i]
            \/ /\ tool_calls[i].name = "save_contact_details"
               /\ JSONParse(tool_calls[i].arguments).ok
               /\ faults \/ JSONParse(tool_calls[i].arguments).value = EmptyObj}

\* run.status === "completed"
RunCompletedMutantNotFailed(run_status) == run_status # "failed"

RunCompletedMutantSecondRound(run_status) ==
    run_status \in {"completed", "requires_action"}

RunCompleted(run_status) == run_status = "completed"

\* interrupted || messageRequest.creator === "USER"
GatedMutantUserOnly(interrupted, creator) == creator = "USER"

Gated(interrupted, creator) == interrupted \/ creator = "USER"

FinalStatus(script) ==
    IF script.status1 = "requires_action" THEN script.status2 ELSE script.status1

SumDelays(replies) ==
    LET RECURSIVE Sum(_)
        Sum(r) == IF r = <<>> THEN 0 ELSE Head(r).delay + Sum(Tail(r))
    IN  Sum(replies)

\* the thread after the run: the assistant messages, stamped in seconds
RECURSIVE AppendReplies(_, _, _)
AppendReplies(thread, replies, now) ==
    IF replies = <<>> THEN thread
    ELSE LET r == Head(replies)
             at == now + r.delay
         IN  AppendReplies(
                 Append(thread,
                        ThreadMessage("assistant", r.content.type, r.content.value,
                                      r.content.annotations, at \div MsPerSecond)),
                 Tail(replies), at)

\* openai.beta.threads.messages.create(thread_id, {role: "user", content})
CreateUserMessage(thread, message, now) ==
    Append(thread, ThreadMessage("user", "text", message, <<>>, now \div MsPerSecond))

\* ------------------------------------------------------------------- tables
ThreadIds == {ThreadIdOf(c) : c \in ConvIds}

NoRow ==
    [exists |-> FALSE, organisation_id |-> "", contact_id |-> "", status |-> "",
     interrupted |-> FALSE, created_at |-> 0, last_message_at |-> 0,
     summary |-> Null, sentiment |-> 0, channel |-> "", channel_id |-> ""]

NoContact ==
    [exists |-> FALSE, organisation_id |-> "", name |-> Null, email |-> Null,
     phone |-> Null, slack_id |-> Null]

\* what the last handler invocation read, did and answered
NoCall ==
    [op |-> "none", conversation_id |-> "", creator |-> "", found |-> FALSE,
     interrupted |-> FALSE, contact_id |-> "", inbound |-> NoMessage,
     aiOps |-> <<>>, run1 |-> "none", tool_calls |-> <<>>, executes |-> <<>>,
     tool_outputs |-> <<>>, run |-> "none", outbound |-> <<>>,
     saved |-> FALSE, status |-> 0, hasBody |-> FALSE, body |-> <<>>,
     error |-> "", threw |-> FALSE, is_admin |-> FALSE, posts |-> <<>>,
     failed |-> "none", propagated |-> FALSE]

GenericError == "Failed to send message"

\* ------------------------------------------------------ saveMessageToDatabase
\* Promise.all([insert of the request and the responses, update of the
\* conversation]): both statements are issued.  Math.max() of no response is
\* -Infinity; accepts tells whether the store takes that value for
\* last_message_at or rejects the UPDATE.
LastMessageAtMutantStale(requestToSave, responses) ==
    IF responses.defined
    THEN SeqMax([i \in DOMAIN responses.items |-> responses.items[i].created_at])
    ELSE 0

LastMessageAt(requestToSave, responses) ==
    IF responses.defined
    THEN SeqMax([i \in DOMAIN responses.items |-> responses.items[i].created_at])
    ELSE requestToSave.created_at

RowsToInsert(requestToSave, responses) ==
    IF responses.defined THEN <<requestToSave>> \o responses.items
    ELSE <<requestToSave>>

UpdateConversationMutantNoFlag(convs, id, last_message_at, setInterrupted) ==
    IF convs[id].exists
    THEN [convs EXCEPT ![id] =
            [@ EXCEPT !.last_message_at = last_message_at,
                      !.status = "OPEN"]]
    ELSE convs

UpdateConversationMutantReset(convs, id, last_message_at, setInterrupted) ==
    IF convs[id].exists
    THEN [convs EXCEPT ![id] =
            [@ EXCEPT !.last_message_at = last_message_at,
                      !.status = "OPEN",
                      !.interrupted = setInterrupted]]
    ELSE convs

UpdateConversation(convs, id, last_message_at, setInterrupted) ==
    IF convs[id].exists
    THEN [convs EXCEPT ![id] =
            [@ EXCEPT !.last_message_at = last_message_at,
                      !.status = "OPEN",
                      !.interrupted = IF setInterrupted THEN TRUE ELSE @]]
    ELSE convs

SaveMessageToDatabase(msgs, convs, requestToSave, responses, setInterrupted, accepts) ==
    LET at == LastMessageAt(requestToSave, responses)
        updated == at # NegInfinity \/ accepts
    IN  [messages |-> msgs \o RowsToInsert(requestToSave, responses),
         conversations |->
            IF updated
            THEN UpdateConversation(convs, requestToSave.conversation_id, at,
                                    setInterrupted)
            ELSE convs,
         rejected |-> ~updated]

NoResponses == [defined |-> FALSE, items |-> <<>>]
Responses(items) == [defined |-> TRUE, items |-> items]

\* ------------------------------------------------------------------ the run
\* sendMessage.ts lines 63-115 and OpenAIHandler lines 19-65 are the same
\* text: append the user message, create the run and poll, and on
\* requires_action answer every tool call once and poll again.
AiOps(script) ==
    <<"messages.create", "runs.createAndPoll">>
    \o (IF script.status1 = "requires_action"
        THEN <<"runs.submitToolOutputsAndPoll">> ELSE <<>>)
    \o (IF RunCompleted(FinalStatus(script)) THEN <<"messages.list">> ELSE <<>>)

\* a run that ends without a tool round
PlainScripts(replies) ==
    {[status1 |-> s1, tool_calls |-> <<>>, executes |-> <<>>, order |-> <<>>,
      status2 |-> "none", replies |-> IF s1 = "completed" THEN r ELSE <<>>] :
        s1 \in RunStatuses \ {"requires_action"}, r \in replies}

\* a run that asks for tool calls once and then ends in a status of finals
RoundScripts(toolCallSeqs, faults, finals, replies, always) ==
    UNION {UNION {{[status1 |-> "requires_action", tool_calls |-> tcs,
                    executes |-> e, order |-> o, status2 |-> s2,
                    replies |-> IF s2 = "completed" \/ always THEN r ELSE <<>>] :
                      s2 \in finals, r \in replies, o \in Orders(tcs, e)} :
                  e \in Executes(tcs, faults)} :
           tcs \in toolCallSeqs}

OneReply == {<<[content |-> c, delay |-> 0]>> : c \in TextContents}

\* the runs of the handler's specification: every reply sequence, and a tool
\* round of one call
HttpScripts ==
    PlainScripts(Replies(TextContents \cup OtherContents))
    \cup RoundScripts({tcs \in ToolCallSeqs : Len(tcs) = 1 /\ tcs[1].arguments.ws},
                      FALSE, RunStatuses, OneReply \cup {<<>>}, FALSE)

\* the runs of the tool round's specification: every tool-call sequence, with
\* statements of the store that may fail; the run writes one assistant
\* message whatever its last status
ToolScripts ==
    RoundScripts(ToolCallSeqs, TRUE, {"completed", "requires_action", "failed"},
                 OneReply, TRUE)

ThreadAfterRun(thread, message, script, now) ==
    AppendReplies(CreateUserMessage(thread, message, now), script.replies, now)

ContactsAfterRun(tbl, contact_id, script) ==
    IF script.status1 = "requires_action"
    THEN ApplyUpdates(tbl, contact_id, script.tool_calls, script.executes,
                      script.order)
    ELSE tbl

SubmittedOutputs(script) ==
    IF script.status1 = "requires_action"
    THEN ToolOutputs(script.tool_calls, script.executes)
    ELSE <<>>

\* sendMessage.ts lines 117-134
CollectReplies(thread, conversation_id) ==
    LET data == MessagesListAll(thread)
        kept == SelectSeq(SinceLastUser(data), IsText)
    IN  [i \in DOMAIN kept |-> PlainMessage(kept[i], conversation_id)]

\* OpenAIHandler lines 67-85
CollectRepliesLimited(thread, conversation_id) ==
    LET data == MessagesList(thread, ListLimit)
        kept == SelectSeq(SinceLastUser(data), IsText)
    IN  [i \in DOMAIN kept |-> ProcessOpenAIMessage(kept[i], conversation_id)]

\* ----------------------------------------------------- invocations in flight
\* The handlers are async functions: between two awaits of one invocation
\* another invocation can run.  inflight holds, for each of the invocations
\* that can overlap, the await it has reached (pc) and its local variables;
\* own and taken are the positions on the thread of the assistant messages
\* its run wrote and of those it returned.
Procs == {"p1", "p2"}

NoProc ==
    [pc |-> "idle", data |-> <<>>, user |-> <<>>, contact_id |-> Undefined,
     conversation_id |-> Undefined, interrupted |-> FALSE, inbound |-> NoMessage,
     texts |-> <<>>, run |-> "none", own |-> {}, taken |-> {}, outbound |-> <<>>]

NoInflight == [p \in Procs |-> NoProc]

\* --------------------------------------------------------------------- Init
WebConversation(status) ==
    [exists |-> TRUE, organisation_id |-> "org_1", contact_id |-> "cont_1",
     status |-> status, interrupted |-> FALSE, created_at |-> 0,
     last_message_at |-> 0, summary |-> Null, sentiment |-> 0,
     channel |-> "WEB", channel_id |-> ""]

NoStrip == ThreadMessage("assistant", "text", <<>>, <<>>, 0)

InitTables ==
    /\ clock = 0
    /\ \E st \in Statuses :
          conversations = [c \in ConvIds |->
                              IF c = "conv_1" THEN WebConversation(st) ELSE NoRow]
    /\ contacts = [c \in ContIds |->
                      IF c = "cont_1"
                      THEN NewContact("org_1", Null, Null, Null, Null)
                      ELSE NoContact]
    /\ messages = <<>>
    /\ threads = [t \in ThreadIds |-> <<>>]
    /\ last = NoCall

Init ==
    /\ InitTables
    /\ stripIn = NoStrip
    /\ stripOut = <<>>
    /\ inflight = NoInflight

\* -------------------------------------------------------------- sendMessage
Called(op, request, row) ==
    [NoCall EXCEPT !.op = op,
                   !.conversation_id = request.conversation_id,
                   !.creator = request.creator,
                   !.found = row.exists,
                   !.interrupted = row.exists /\ row.interrupted,
                   !.contact_id = row.contact_id]

Failure(call) ==
    [call EXCEPT !.status = 500, !.hasBody = TRUE, !.error = GenericError]

\* lines 29-43 and 153-162: no row, the destructuring throws a TypeError and
\* the catch answers 500
SendMessageNotFound(request) ==
    LET row == conversations[request.conversation_id]
    IN  /\ ~row.exists
        /\ last' = Failure([Called("sendMessage", request, row) EXCEPT !.threw = TRUE])
        /\ UNCHANGED <<clock, conversations, contacts, messages, threads>>

\* lines 55-61
SendMessageGate(request) ==
    LET row == conversations[request.conversation_id]
        newMessageRequest ==
            MessageResponse(request.conversation_id, request.message,
                            request.creator, clock)
        save == SaveMessageToDatabase(messages, conversations, newMessageRequest,
                                      NoResponses, TRUE, TRUE)
    IN  /\ row.exists
        /\ Gated(row.interrupted, request.creator)
        /\ Len(messages) < MaxMessages
        /\ messages' = save.messages
        /\ conversations' = save.conversations
        /\ last' = [Called("sendMessage", request, row) EXCEPT
                        !.inbound = newMessageRequest, !.saved = TRUE,
                        !.status = 200]
        /\ UNCHANGED <<clock, contacts, threads>>

\* lines 63-151
SendMessageAssistant(request, script) ==
    LET row == conversations[request.conversation_id]
        thread_id == ThreadIdOf(request.conversation_id)
        newMessageRequest ==
            MessageResponse(request.conversation_id, request.message,
                            request.creator, clock)
        thread == ThreadAfterRun(threads[thread_id], request.message,
                                 script, clock)
        messageResponse ==
            IF RunCompleted(FinalStatus(script))
            THEN CollectReplies(thread, request.conversation_id)
            ELSE <<>>
        save(accepts) ==
            SaveMessageToDatabase(messages, conversations, newMessageRequest,
                                  Responses(messageResponse), FALSE, accepts)
        call == [Called("sendMessage", request, row) EXCEPT
                    !.inbound = newMessageRequest,
                    !.aiOps = AiOps(script),
                    !.run1 = script.status1,
                    !.tool_calls = script.tool_calls,
                    !.executes = script.executes,
                    !.tool_outputs = SubmittedOutputs(script),
                    !.run = FinalStatus(script),
                    !.outbound = messageResponse]
    IN  /\ row.exists
        /\ ~Gated(row.interrupted, request.creator)
        /\ Len(thread) <= MaxThread
        /\ clock + SumDelays(script.replies) <= MaxClock
        /\ Len(messages) + 1 + Len(messageResponse) <= MaxMessages
        /\ clock' = clock + SumDelays(script.replies)
        /\ threads' = [threads EXCEPT ![thread_id] = thread]
        /\ contacts' = ContactsAfterRun(contacts, row.contact_id, script)
        /\ IF RunCompleted(FinalStatus(script))
           THEN \E accepts \in IF messageResponse = <<>> THEN BOOLEAN ELSE {TRUE} :
                /\ messages' = save(accepts).messages
                /\ conversations' = save(accepts).conversations
                /\ last' = IF save(accepts).rejected
                           THEN Failure([call EXCEPT !.saved = TRUE, !.threw = TRUE])
                           ELSE [call EXCEPT !.saved = TRUE, !.status = 200,
                                             !.hasBody = TRUE,
                                             !.body = messageResponse]
           ELSE /\ last' = Failure(call)
                /\ UNCHANGED <<messages, conversations>>

Requests ==
    {[conversation_id |-> c, message |-> m, creator |-> cr] :
        c \in ConvIds, m \in InboundTexts, cr \in Creators}

SendMessage(scripts) ==
    \E request \in Requests :
        \/ SendMessageNotFound(request)
        \/ SendMessageGate(request)
        \/ /\ conversations[request.conversation_id].exists
           /\ ~Gated(conversations[request.conversation_id].interrupted,
                     request.creator)
           /\ Len(threads[ThreadIdOf(request.conversation_id)]) < MaxThread
           /\ Len(messages) < MaxMessages
           /\ \E script \in scripts : SendMessageAssistant(request, script)

\* time passes between two invocations
Tick ==
    /\ clock + StepMs <= MaxClock
    /\ clock' = clock + StepMs
    /\ last' = NoCall
    /\ UNCHANGED <<conversations, contacts, messages, threads>>

Next ==
    \/ SendMessage(HttpScripts) /\ UNCHANGED <<stripIn, stripOut, inflight>>
    \/ Tick /\ UNCHANGED <<stripIn, stripOut, inflight>>

Spec == Init /\ [][Next]_vars

\* The handler over runs that ask for tool calls, the store's UPDATE of the
\* contact failing or not.  The thread starts with the user messages of
\* earlier runs that failed, and the contact with or without earlier details.
EarlierFailedRuns(n) == [i \in 1..n |-> ThreadMessage("user", "text", <<"hi">>, <<>>, 0)]

InitTools ==
    /\ clock = 0
    /\ conversations = [c \in ConvIds |->
                           IF c = "conv_1" THEN WebConversation("OPEN") ELSE NoRow]
    /\ \E known \in BOOLEAN :
          contacts = [c \in ContIds |->
                         IF c = "cont_1"
                         THEN IF known
                              THEN NewContact("org_1", "Bob", "b@b.com", "111", Null)
                              ELSE NewContact("org_1", Null, Null, Null, Null)
                         ELSE NoContact]
    /\ messages = <<>>
    /\ threads = [t \in ThreadIds |-> EarlierFailedRuns(MaxThread - 2)]
    /\ last = NoCall
    /\ stripIn = NoStrip
    /\ stripOut = <<>>
    /\ inflight = NoInflight

NextTools == SendMessage(ToolScripts) /\ UNCHANGED <<stripIn, stripOut, inflight>>

SpecTools == InitTools /\ [][NextTools]_vars

\* ------------------------------------------- sendMessage, insert rejected
\* Promise.all([insert, update]) (lines 177-206): both statements are issued
\* before either settles.  When the INSERT rejects, Promise.all rejects and
\* the catch of the handler answers 500; the UPDATE was sent all the same.
SendMessageInsertFails(request, script) ==
    LET row == conversations[request.conversation_id]
        thread_id == ThreadIdOf(request.conversation_id)
        gated == Gated(row.interrupted, request.creator)
        newMessageRequest ==
            MessageResponse(request.conversation_id, request.message,
                            request.creator, clock)
        thread == ThreadAfterRun(threads[thread_id], request.message,
                                 script, clock)
        messageResponse == CollectReplies(thread, request.conversation_id)
        responses == IF gated THEN NoResponses ELSE Responses(messageResponse)
        at == LastMessageAt(newMessageRequest, responses)
        call == [Called("sendMessage", request, row) EXCEPT
                    !.inbound = newMessageRequest,
                    !.aiOps = IF gated THEN <<>> ELSE AiOps(script),
                    !.run1 = IF gated THEN "none" ELSE script.status1,
                    !.run = IF gated THEN "none" ELSE FinalStatus(script),
                    !.outbound = IF gated THEN <<>> ELSE messageResponse,
                    !.failed = "insert",
                    !.threw = TRUE]
    IN  /\ row.exists
        /\ gated \/ RunCompleted(FinalStatus(script))
        /\ gated => script.replies = <<>>
        /\ ~gated => Len(thread) <= MaxThread
        /\ \E accepts \in IF at = NegInfinity THEN BOOLEAN ELSE {TRUE} :
              conversations' =
                  IF accepts
                  THEN UpdateConversation(conversations, request.conversation_id,
                                          at, gated)
                  ELSE conversations
        /\ messages' = messages
        /\ threads' = IF gated THEN threads
                      ELSE [threads EXCEPT ![thread_id] = thread]
        /\ last' = Failure(call)
        /\ UNCHANGED <<clock, contacts>>

\* runs that end at once, completed with no or one reply, or failed
FaultScripts ==
    {script \in PlainScripts(OneReply \cup {<<>>}) :
        script.status1 \in {"completed", "failed"}}

NextFault ==
    \/ SendMessage(FaultScripts) /\ UNCHANGED <<stripIn, stripOut, inflight>>
    \/ (\E request \in Requests, script \in FaultScripts :
            SendMessageInsertFails(request, script))
       /\ UNCHANGED <<stripIn, stripOut, inflight>>
    \/ Tick /\ UNCHANGED <<stripIn, stripOut, inflight>>

SpecFault == Init /\ [][NextFault]_vars

\* ------------------------------------------------ handleMessageForOpenAI
HandlerError == "OpenAI request failed"

\* the replies of a run of the handler: up to MaxEmitted assistant messages,
\* all text but at most one
EmittedReplies ==
    {[i \in 1..n |->
         [content |-> IF i = other
                      THEN CHOOSE c \in OtherContents : TRUE
                      ELSE CHOOSE c \in TextContents : TRUE,
          delay |-> 0]] :
        n \in 0..MaxEmitted, other \in 0..1}

\* the runs of the handler: every number of replies, and a tool round of one
\* call with a store that may reject the UPDATE
HandlerScripts ==
    PlainScripts(EmittedReplies)
    \cup RoundScripts({tcs \in ToolCallSeqs : Len(tcs) = 1}, TRUE,
                      {"completed", "requires_action", "failed"}, OneReply, FALSE)

\* OpenAIHandler lines 10-92
HandleMessageForOpenAI(messageRequest, contact_id, script) ==
    LET thread_id == ThreadIdOf(messageRequest.conversation_id)
        thread == ThreadAfterRun(threads[thread_id], messageRequest.message,
                                 script, clock)
        completed == RunCompleted(FinalStatus(script))
        messageResponse ==
            IF completed
            THEN CollectRepliesLimited(thread, messageRequest.conversation_id)
            ELSE <<>>
    IN  /\ contacts[contact_id].exists
        /\ Len(threads[thread_id]) < MaxThread
        /\ threads' = [threads EXCEPT ![thread_id] = thread]
        /\ contacts' = ContactsAfterRun(contacts, contact_id, script)
        /\ last' = [NoCall EXCEPT
                       !.op = "handleMessageForOpenAI",
                       !.conversation_id = messageRequest.conversation_id,
                       !.creator = messageRequest.creator,
                       !.contact_id = contact_id,
                       !.aiOps = AiOps(script),
                       !.run1 = script.status1,
                       !.tool_calls = script.tool_calls,
                       !.executes = script.executes,
                       !.tool_outputs = SubmittedOutputs(script),
                       !.run = FinalStatus(script),
                       !.outbound = messageResponse,
                       !.threw = ~completed,
                       !.error = IF completed THEN "" ELSE HandlerError]
        /\ UNCHANGED <<clock, conversations, messages>>

HandlerRequests ==
    {[conversation_id |-> "conv_1", message |-> m, creator |-> "CONTACT"] :
        m \in InboundTexts}

NextHandler ==
    (\E messageRequest \in HandlerRequests, script \in HandlerScripts :
         HandleMessageForOpenAI(messageRequest, "cont_1", script))
    /\ UNCHANGED <<stripIn, stripOut, inflight>>

SpecHandler == InitTools /\ [][NextHandler]_vars

\* the tool round of both entry points
NextRound ==
    \/ SendMessage(ToolScripts) /\ UNCHANGED <<stripIn, stripOut, inflight>>
    \/ NextHandler

SpecRound == InitTools /\ [][NextRound]_vars

\* ---------------------------------------------------- Slack bot events
\* users.info of the Slack API: the users it knows, any other id is rejected
SlackUsers ==
    {[id |-> "U_adm", real_name |-> "Ada", email |-> "ada@x.io", phone |-> "100",
      is_admin |-> TRUE],
     [id |-> "U_cus", real_name |-> "Ann", email |-> "a@b.com", phone |-> "555",
      is_admin |-> FALSE]}
SlackUserIds == {u.id : u \in SlackUsers} \cup {"U_gone"}
ThreadTs == {"ts_1"}

Apology == <<"An error occured wth this message, please contact your adminstrator.">>
CallToAction == <<"If this solved your question give the message a :white_check_mark:">>

\* createID(prefix): an identifier no row of the table carries yet
ContIdOrder == <<"cont_1", "cont_2", "cont_3">>
ConvIdOrder == <<"conv_1", "conv_2">>
CreateID(tbl, order) ==
    IF \E i \in DOMAIN order : ~tbl[order[i]].exists
    THEN order[CHOOSE i \in DOMAIN order :
                  /\ ~tbl[order[i]].exists
                  /\ \A j \in 1..(i - 1) : tbl[order[j]].exists]
    ELSE Undefined

\* checkGetContactID: the contact with this slack_id, inserted when absent
CheckGetContactID(tbl, slackUser, organisation_id) ==
    LET found == {c \in ContIds : tbl[c].exists /\ tbl[c].slack_id = slackUser.id}
        contact_id == CreateID(tbl, ContIdOrder)
    IN  IF found # {}
        THEN [contacts |-> tbl, contact_id |-> CHOOSE c \in found : TRUE]
        ELSE [contacts |->
                 [tbl EXCEPT ![contact_id] =
                     NewContact(organisation_id, slackUser.real_name,
                                slackUser.email, slackUser.phone, slackUser.id)],
              contact_id |-> contact_id]

\* checkGetConversation: the conversation of this thread; an admin's message
\* marks it interrupted and never creates one
CheckGetConversationMutantAdminCreates(convs, thread_ts, organisation_id, messageIsFromAdmin, contact_id, now) ==
    LET found == {c \in ConvIds : convs[c].exists /\ convs[c].channel_id = thread_ts}
        conversation_id == CreateID(convs, ConvIdOrder)
    IN  IF found # {}
        THEN LET id == CHOOSE c \in found : TRUE
             IN  [conversations |->
                     IF messageIsFromAdmin
                     THEN [convs EXCEPT ![id].interrupted = TRUE]
                     ELSE convs,
                  conversation_id |-> id,
                  interrupted |-> convs[id].interrupted]
        ELSE [conversations |->
                 [convs EXCEPT ![conversation_id] =
                     [exists |-> TRUE, organisation_id |-> organisation_id,
                      contact_id |-> contact_id, status |-> "OPEN",
                      interrupted |-> FALSE, created_at |-> now,
                      last_message_at |-> now, summary |-> Null, sentiment |-> 0,
                      channel |-> "SLACK", channel_id |-> thread_ts]],
              conversation_id |-> conversation_id,
              interrupted |-> FALSE]

CheckGetConversation(convs, thread_ts, organisation_id, messageIsFromAdmin, contact_id, now) ==
    LET found == {c \in ConvIds : convs[c].exists /\ convs[c].channel_id = thread_ts}
        conversation_id == CreateID(convs, ConvIdOrder)
    IN  IF found # {}
        THEN LET id == CHOOSE c \in found : TRUE
             IN  [conversations |->
                     IF messageIsFromAdmin
                     THEN [convs EXCEPT ![id].interrupted = TRUE]
                     ELSE convs,
                  conversation_id |-> id,
                  interrupted |-> convs[id].interrupted]
        ELSE IF ~messageIsFromAdmin
        THEN [conversations |->
                 [convs EXCEPT ![conversation_id] =
                     [exists |-> TRUE, organisation_id |-> organisation_id,
                      contact_id |-> contact_id, status |-> "OPEN",
                      interrupted |-> FALSE, created_at |-> now,
                      last_message_at |-> now, summary |-> Null, sentiment |-> 0,
                      channel |-> "SLACK", channel_id |-> thread_ts]],
              conversation_id |-> conversation_id,
              interrupted |-> FALSE]
        ELSE [conversations |-> convs, conversation_id |-> Undefined,
              interrupted |-> FALSE]

\* handleSingleMessageForOpenAI(assistant_id, message, context): one run on a
\* thread of its own; the texts of the assistant's replies, or a throw
\* lines 89-90: messageResponse.map((r) => r.message).join("\n")
SingleRuns ==
    {[threw |-> t, texts |-> IF t THEN <<>> ELSE r, delay |-> d] :
        t \in BOOLEAN, r \in SeqsUpTo({<<"Hello!">>}, MaxReplies), d \in Delays}

RECURSIVE JoinTexts(_)
JoinTexts(texts) ==
    IF texts = <<>> THEN <<>>
    ELSE IF Len(texts) = 1 THEN Head(texts)
    ELSE Head(texts) \o <<"\n">> \o JoinTexts(Tail(texts))

\* lines 126-130: mr.created_at = inboundMessage.created_at + index + 1
StampResponsesMutantSameTime(texts, conversation_id, inbound_at) ==
    [i \in DOMAIN texts |->
        MessageResponse(conversation_id, texts[i], "AGENT", inbound_at + 1)]

StampResponses(texts, conversation_id, inbound_at) ==
    [i \in DOMAIN texts |->
        MessageResponse(conversation_id, texts[i], "AGENT", inbound_at + (i - 1) + 1)]

\* saveMessageResponsesToDatabase(responses, false): the batch insert and the
\* update of last_message_at and status
SaveMessageResponsesToDatabase(msgs, convs, conversation_id, responses) ==
    [messages |-> msgs \o responses,
     conversations |->
        IF responses = <<>> THEN convs
        ELSE UpdateConversation(
                 convs, conversation_id,
                 SeqMax([i \in DOMAIN responses |-> responses[i].created_at]),
                 FALSE)]

SlackCalled(user_id) ==
    [NoCall EXCEPT !.op = "slackBot", !.creator = user_id]

\* lines 63-64 and 134-144: users.info rejects, the catch posts the apology
SlackBotUnknownUser(data) ==
    /\ data.user_id \notin {u.id : u \in SlackUsers}
    /\ last' = [SlackCalled(data.user_id) EXCEPT !.threw = TRUE,
                                                 !.failed = "user",
                                                 !.posts = <<Apology>>]
    /\ UNCHANGED <<clock, conversations, contacts, messages, threads>>

\* lines 54-145 for a user Slack knows
SlackBotMessage(data, slackUser, run) ==
    LET got == CheckGetContactID(contacts, slackUser, data.organisation_id)
        convs == CheckGetConversation(conversations, data.thread_ts,
                                      data.organisation_id, slackUser.is_admin,
                                      got.contact_id, clock)
        answered == ~slackUser.is_admin
        now == IF answered THEN clock + run.delay ELSE clock
        inboundMessage ==
            MessageResponse(convs.conversation_id, data.message,
                            IF slackUser.is_admin THEN "USER" ELSE "CONTACT", now)
        messageResponse ==
            StampResponses(run.texts, convs.conversation_id, inboundMessage.created_at)
        saved == SaveMessageResponsesToDatabase(
                     Append(messages, inboundMessage), convs.conversations,
                     convs.conversation_id, messageResponse)
        call == [SlackCalled(data.user_id) EXCEPT
                    !.is_admin = slackUser.is_admin,
                    !.found = convs.conversation_id # Undefined,
                    !.conversation_id =
                        IF convs.conversation_id = Undefined THEN ""
                        ELSE convs.conversation_id,
                    !.interrupted = convs.interrupted,
                    !.contact_id = got.contact_id,
                    !.aiOps = IF answered THEN <<"handleSingleMessageForOpenAI">>
                              ELSE <<>>]
    IN  /\ slackUser.id = data.user_id
        /\ got.contact_id # Undefined
        /\ slackUser.is_admin => run = [threw |-> FALSE, texts |-> <<>>, delay |-> 0]
        /\ now <= MaxClock
        /\ Len(messages) + 1 + Len(run.texts) <= MaxMessages
        /\ clock' = now
        /\ contacts' = got.contacts
        /\ threads' = threads
        /\ IF answered /\ run.threw
           THEN /\ conversations' = convs.conversations
                /\ messages' = messages
                /\ last' = [call EXCEPT !.threw = TRUE, !.failed = "run",
                                         !.posts = <<Apology>>]
           ELSE IF convs.conversation_id = Undefined
           THEN /\ conversations' = convs.conversations
                /\ messages' = messages
                /\ last' = call
           ELSE /\ conversations' = saved.conversations
                /\ messages' = saved.messages
                /\ last' = [call EXCEPT
                               !.inbound = inboundMessage,
                               !.saved = TRUE,
                               !.outbound = messageResponse,
                               !.posts = IF answered
                                         THEN <<JoinTexts(run.texts) \o CallToAction>>
                                         ELSE <<>>]

SlackBotEvents ==
    {[organisation_id |-> o, message |-> m, user_id |-> u, channel_id |-> "C1",
      thread_ts |-> t] :
        o \in OrgIds, m \in InboundTexts, u \in SlackUserIds, t \in ThreadTs}

ProcessSlackBotMessage ==
    \E data \in SlackBotEvents :
        \/ SlackBotUnknownUser(data)
        \/ \E slackUser \in SlackUsers, run \in SingleRuns :
              SlackBotMessage(data, slackUser, run)

\* ------------------------------------------------- Slack slash commands
ResponseUrls == {"url_1"}

SlackSlashEvents ==
    {[organisation_id |-> o, message |-> m, response_url |-> r,
      user_id |-> "U_cus", user_name |-> "ann"] :
        o \in OrgIds, m \in InboundTexts, r \in ResponseUrls}

\* lines 183-189: checkGetContactID(data.user_id, data.user_name, "", "", ..)
SlashUser(data) ==
    [id |-> data.user_id, real_name |-> data.user_name, email |-> "",
     phone |-> "", is_admin |-> FALSE]

SlashCalled(data) ==
    [NoCall EXCEPT !.op = "slackSlash", !.creator = data.user_id,
                   !.aiOps = <<"handleSingleMessageForOpenAI">>]

\* lines 152-221
SlackSlashMessage(data, run) ==
    LET now == clock + run.delay
        got == CheckGetContactID(contacts, SlashUser(data), data.organisation_id)
        convs == CheckGetConversation(conversations, data.response_url,
                                      data.organisation_id, FALSE,
                                      got.contact_id, now)
        inboundMessage ==
            MessageResponse(convs.conversation_id, data.message, "CONTACT", now)
        messageResponse ==
            StampResponses(run.texts, convs.conversation_id, inboundMessage.created_at)
        saved == SaveMessageResponsesToDatabase(
                     Append(messages, inboundMessage), convs.conversations,
                     convs.conversation_id, messageResponse)
    IN  /\ now <= MaxClock
        /\ clock' = now
        /\ threads' = threads
        /\ IF run.threw
           THEN /\ UNCHANGED <<contacts, conversations, messages>>
                /\ last' = [SlashCalled(data) EXCEPT !.threw = TRUE,
                                                     !.failed = "run",
                                                     !.posts = <<Apology>>]
           ELSE /\ got.contact_id # Undefined
                /\ convs.conversation_id # Undefined
                /\ Len(messages) + 1 + Len(run.texts) <= MaxMessages
                /\ contacts' = got.contacts
                /\ conversations' = saved.conversations
                /\ messages' = saved.messages
                /\ last' = [SlashCalled(data) EXCEPT
                               !.found = TRUE,
                               !.conversation_id = convs.conversation_id,
                               !.interrupted = convs.interrupted,
                               !.contact_id = got.contact_id,
                               !.inbound = inboundMessage,
                               !.saved = TRUE,
                               !.outbound = messageResponse,
                               !.posts = <<JoinTexts(run.texts) \o CallToAction>>]

ProcessSlackSlashMessage ==
    \E data \in SlackSlashEvents, run \in SingleRuns : SlackSlashMessage(data, run)

NextSlack ==
    \/ ProcessSlackBotMessage /\ UNCHANGED <<stripIn, stripOut, inflight>>
    \/ ProcessSlackSlashMessage /\ UNCHANGED <<stripIn, stripOut, inflight>>
    \/ Tick /\ UNCHANGED <<stripIn, stripOut, inflight>>

SpecSlack == Init /\ [][NextSlack]_vars

\* ------------------------------------------ Slack handlers, failing steps
\* The awaited steps of the two handlers, in the order of the code.  Every
\* one of them is a request to the store, to Slack or to the assistant
\* provider and can reject.
BotSteps ==
    <<"organisation", "user", "contact", "conversation", "run", "post",
      "insert", "save">>
SlashSteps ==
    <<"organisation", "run", "post", "contact", "conversation", "insert",
      "save">>

StepIndex(steps, step) == CHOOSE i \in DOMAIN steps : steps[i] = step

\* step completed before the step that failed
Done(steps, failed, step) == StepIndex(steps, step) < StepIndex(steps, failed)

NoRun == [threw |-> FALSE, texts |-> <<>>, delay |-> 0]

\* lines 134-144 and 213-220: the catch awaits the post of the apology; the
\* post rejects when fetch rejects (240-243, 263-266) and nothing catches that
Caught(call, failed, posted, apologyPosted) ==
    [call EXCEPT !.threw = TRUE,
                 !.failed = failed,
                 !.posts = posted \o (IF apologyPosted THEN <<Apology>> ELSE <<>>),
                 !.propagated = ~apologyPosted]

\* processSlackBotMessage when the step failed rejects
SlackBotFails(data, slackUser, run, failed, apologyPosted) ==
    LET got == CheckGetContactID(contacts, slackUser, data.organisation_id)
        convs == CheckGetConversation(conversations, data.thread_ts,
                                      data.organisation_id, slackUser.is_admin,
                                      got.contact_id, clock)
        answered == ~slackUser.is_admin
        ran == answered /\ ~Done(BotSteps, failed, "conversation")
                        /\ failed # "conversation"
        now == IF ran THEN clock + run.delay ELSE clock
        inboundMessage ==
            MessageResponse(convs.conversation_id, data.message,
                            IF slackUser.is_admin THEN "USER" ELSE "CONTACT", now)
        call == [SlackCalled(data.user_id) EXCEPT
                    !.is_admin = Done(BotSteps, failed, "user") /\ slackUser.is_admin,
                    !.aiOps = IF ran THEN <<"handleSingleMessageForOpenAI">>
                              ELSE <<>>]
    IN  /\ slackUser.id = data.user_id
        /\ failed \in {"run", "post", "save"} => answered
        /\ Done(BotSteps, failed, "contact") => got.contact_id # Undefined
        /\ failed \in {"insert", "save"} => convs.conversation_id # Undefined
        /\ run.threw = (failed = "run")
        /\ ~ran => run = NoRun
        /\ now <= MaxClock
        /\ Len(messages) < MaxMessages
        /\ clock' = now
        /\ threads' = threads
        /\ contacts' = IF Done(BotSteps, failed, "contact") THEN got.contacts
                       ELSE contacts
        /\ conversations' = IF Done(BotSteps, failed, "conversation")
                            THEN convs.conversations ELSE conversations
        /\ messages' = IF Done(BotSteps, failed, "insert")
                       THEN Append(messages, inboundMessage) ELSE messages
        /\ last' = Caught(call, failed,
                          IF answered /\ Done(BotSteps, failed, "post")
                          THEN <<JoinTexts(run.texts) \o CallToAction>> ELSE <<>>,
                          apologyPosted)

\* processSlackSlashMessage when the step failed rejects
SlackSlashFails(data, run, failed, apologyPosted) ==
    LET ran == failed # "organisation"
        now == IF ran THEN clock + run.delay ELSE clock
        got == CheckGetContactID(contacts, SlashUser(data), data.organisation_id)
        convs == CheckGetConversation(conversations, data.response_url,
                                      data.organisation_id, FALSE,
                                      got.contact_id, now)
        inboundMessage ==
            MessageResponse(convs.conversation_id, data.message, "CONTACT", now)
        call == [SlashCalled(data) EXCEPT
                    !.aiOps = IF ran THEN <<"handleSingleMessageForOpenAI">>
                              ELSE <<>>]
    IN  /\ Done(SlashSteps, failed, "contact") => got.contact_id # Undefined
        /\ Done(SlashSteps, failed, "conversation")
              => convs.conversation_id # Undefined
        /\ run.threw = (failed = "run")
        /\ ~ran => run = NoRun
        /\ now <= MaxClock
        /\ Len(messages) < MaxMessages
        /\ clock' = now
        /\ threads' = threads
        /\ contacts' = IF Done(SlashSteps, failed, "contact") THEN got.contacts
                       ELSE contacts
        /\ conversations' = IF Done(SlashSteps, failed, "conversation")
                            THEN convs.conversations ELSE conversations
        /\ messages' = IF Done(SlashSteps, failed, "insert")
                       THEN Append(messages, inboundMessage) ELSE messages
        /\ last' = Caught(call, failed,
                          IF Done(SlashSteps, failed, "post")
                          THEN <<JoinTexts(run.texts) \o CallToAction>> ELSE <<>>,
                          apologyPosted)

\* the runs of the failing handlers: at most one reply
FailingRuns == {run \in SingleRuns : Len(run.texts) <= 1 /\ run.delay = 0}

SlackBotFailure ==
    \E data \in SlackBotEvents, slackUser \in SlackUsers, run \in FailingRuns,
       failed \in Range(BotSteps), apologyPosted \in BOOLEAN :
        SlackBotFails(data, slackUser, run, failed, apologyPosted)

SlackSlashFailure ==
    \E data \in SlackSlashEvents, run \in FailingRuns,
       failed \in Range(SlashSteps), apologyPosted \in BOOLEAN :
        SlackSlashFails(data, run, failed, apologyPosted)

NextSlackFault ==
    \/ SlackBotFailure /\ UNCHANGED <<stripIn, stripOut, inflight>>
    \/ SlackSlashFailure /\ UNCHANGED <<stripIn, stripOut, inflight>>

InitSlackFault ==
    /\ clock = 0
    /\ conversations = [c \in ConvIds |->
                           IF c = "conv_1" THEN WebConversation("OPEN") ELSE NoRow]
    /\ contacts = [c \in ContIds |->
                      IF c = "cont_1"
                      THEN NewContact("org_1", Null, Null, Null, Null)
                      ELSE NoContact]
    /\ messages = <<>>
    /\ threads = [t \in ThreadIds |-> <<>>]
    /\ last = NoCall
    /\ stripIn = NoStrip
    /\ stripOut = <<>>
    /\ inflight = NoInflight

SpecSlackFault == InitSlackFault /\ [][NextSlackFault]_vars

\* the three entry points over one store: a conversation opened by a Slack
\* handler can be addressed by sendMessage afterwards.  The handlers run
\* within one millisecond that is no full second, and the assistant answers a
\* Slack message at once with at most one text.
ShortRuns == FailingRuns

InitAll ==
    /\ clock = StepMs
    /\ conversations = [c \in ConvIds |->
                           IF c = "conv_1" THEN WebConversation("OPEN") ELSE NoRow]
    /\ contacts = [c \in ContIds |->
                      IF c = "cont_1"
                      THEN NewContact("org_1", Null, Null, Null, Null)
                      ELSE NoContact]
    /\ messages = <<>>
    /\ threads = [t \in ThreadIds |-> <<>>]
    /\ last = NoCall
    /\ stripIn = NoStrip
    /\ stripOut = <<>>
    /\ inflight = NoInflight

SlackBotOver(runs) ==
    \E data \in SlackBotEvents :
        \/ SlackBotUnknownUser(data)
        \/ \E slackUser \in SlackUsers, run \in runs :
              SlackBotMessage(data, slackUser, run)

SlackSlashOver(runs) ==
    \E data \in SlackSlashEvents, run \in runs : SlackSlashMessage(data, run)

NextAll ==
    \/ SendMessage(FaultScripts) /\ UNCHANGED <<stripIn, stripOut, inflight>>
    \/ SlackBotOver(ShortRuns) /\ UNCHANGED <<stripIn, stripOut, inflight>>
    \/ SlackSlashOver(ShortRuns) /\ UNCHANGED <<stripIn, stripOut, inflight>>

SpecAll == InitAll /\ [][NextAll]_vars

\* --------------------------------- Slack bot events, one await at a time
\* processSlackBotMessage as the sequence of its awaits, for the invocations
\* of Procs running at once.  The tables carry no constraint in this
\* repository: an INSERT of a second row for one slack_id or one channel_id
\* executes, or is rejected where the store has a unique index.
Step(p, pc, next) ==
    /\ inflight[p].pc = pc
    /\ inflight' = [inflight EXCEPT ![p] = next]

\* lines 134-144: the catch posts the apology
SlackThrows(p, failed) ==
    /\ last' = [SlackCalled(inflight[p].data.user_id) EXCEPT
                   !.is_admin = inflight[p].user.is_admin,
                   !.threw = TRUE, !.failed = failed, !.posts = <<Apology>>]
    /\ inflight' = [inflight EXCEPT ![p].pc = "done"]

\* lines 55-64: the organisation and the Slack user are read
SlackReceive(p, data, slackUser) ==
    /\ slackUser.id = data.user_id
    /\ Step(p, "idle", [NoProc EXCEPT !.pc = "contact_select", !.data = data,
                                      !.user = slackUser])
    /\ UNCHANGED <<clock, conversations, contacts, messages, threads, last>>

\* lines 300-307: the SELECT of the contact by slack_id
ContactSelect(p) ==
    LET me == inflight[p]
        found == {c \in ContIds :
                     contacts[c].exists /\ contacts[c].slack_id = me.user.id}
    IN  /\ me.pc = "contact_select"
        /\ IF found # {}
           THEN Step(p, "contact_select",
                     [me EXCEPT !.pc = "conversation_select",
                                !.contact_id = CHOOSE c \in found : TRUE])
           ELSE Step(p, "contact_select", [me EXCEPT !.pc = "contact_insert"])
        /\ UNCHANGED <<clock, conversations, contacts, messages, threads, last>>

\* lines 308-321: the INSERT of the contact under the identifier of createID
ContactInsert(p) ==
    LET me == inflight[p]
        contact_id == CreateID(contacts, ContIdOrder)
        duplicate == \E c \in ContIds :
                        contacts[c].exists /\ contacts[c].slack_id = me.user.id
    IN  /\ me.pc = "contact_insert"
        /\ contact_id # Undefined
        /\ \E executes \in IF duplicate THEN BOOLEAN ELSE {TRUE} :
              IF executes
              THEN /\ contacts' =
                         [contacts EXCEPT ![contact_id] =
                             NewContact(me.data.organisation_id, me.user.real_name,
                                        me.user.email, me.user.phone, me.user.id)]
                   /\ Step(p, "contact_insert",
                           [me EXCEPT !.pc = "conversation_select",
                                      !.contact_id = contact_id])
                   /\ UNCHANGED last
              ELSE /\ SlackThrows(p, "contact")
                   /\ UNCHANGED contacts
        /\ UNCHANGED <<clock, conversations, messages, threads>>

\* lines 331-337 and 363-366: the SELECT of the conversation by channel_id
ConversationSelect(p) ==
    LET me == inflight[p]
        found == {c \in ConvIds :
                     /\ conversations[c].exists
                     /\ conversations[c].channel_id = me.data.thread_ts}
        id == CHOOSE c \in found : TRUE
    IN  /\ me.pc = "conversation_select"
        /\ IF found # {}
           THEN Step(p, "conversation_select",
                     [me EXCEPT !.pc = IF me.user.is_admin
                                       THEN "conversation_mark" ELSE "answer",
                                !.conversation_id = id,
                                !.interrupted = conversations[id].interrupted])
           ELSE IF ~me.user.is_admin
           THEN Step(p, "conversation_select",
                     [me EXCEPT !.pc = "conversation_insert"])
           ELSE Step(p, "conversation_select", [me EXCEPT !.pc = "persist"])
        /\ UNCHANGED <<clock, conversations, contacts, messages, threads, last>>

\* lines 339-346: the UPDATE that sets the interrupted flag
ConversationMark(p) ==
    LET me == inflight[p]
    IN  /\ Step(p, "conversation_mark", [me EXCEPT !.pc = "persist"])
        /\ conversations' =
              [conversations EXCEPT ![me.conversation_id].interrupted = TRUE]
        /\ UNCHANGED <<clock, contacts, messages, threads, last>>

\* lines 348-362: the INSERT of the conversation
ConversationInsert(p) ==
    LET me == inflight[p]
        conversation_id == CreateID(conversations, ConvIdOrder)
        duplicate == \E c \in ConvIds :
                        /\ conversations[c].exists
                        /\ conversations[c].channel_id = me.data.thread_ts
    IN  /\ me.pc = "conversation_insert"
        /\ conversation_id # Undefined
        /\ \E executes \in IF duplicate THEN BOOLEAN ELSE {TRUE} :
              IF executes
              THEN /\ conversations' =
                         [conversations EXCEPT ![conversation_id] =
                             [exists |-> TRUE,
                              organisation_id |-> me.data.organisation_id,
                              contact_id |-> me.contact_id, status |-> "OPEN",
                              interrupted |-> FALSE, created_at |-> clock,
                              last_message_at |-> clock, summary |-> Null,
                              sentiment |-> 0, channel |-> "SLACK",
                              channel_id |-> me.data.thread_ts]]
                   /\ Step(p, "conversation_insert",
                           [me EXCEPT !.pc = "answer",
                                      !.conversation_id = conversation_id])
                   /\ UNCHANGED last
              ELSE /\ SlackThrows(p, "conversation")
                   /\ UNCHANGED conversations
        /\ UNCHANGED <<clock, contacts, messages, threads>>

\* lines 81-110: the assistant answers and the reply is posted
SlackAnswer(p, run) ==
    LET me == inflight[p]
    IN  /\ me.pc = "answer"
        /\ clock + run.delay <= MaxClock
        /\ clock' = clock + run.delay
        /\ IF run.threw
           THEN SlackThrows(p, "run")
           ELSE /\ Step(p, "answer", [me EXCEPT !.pc = "persist",
                                                !.texts = run.texts,
                                                !.run = "completed"])
                /\ UNCHANGED last
        /\ UNCHANGED <<conversations, contacts, messages, threads>>

\* lines 112-133: the inbound message and the replies are stored
SlackPersist(p) ==
    LET me == inflight[p]
        answered == ~me.user.is_admin
        inboundMessage ==
            MessageResponse(me.conversation_id, me.data.message,
                            IF me.user.is_admin THEN "USER" ELSE "CONTACT", clock)
        messageResponse ==
            StampResponses(me.texts, me.conversation_id, inboundMessage.created_at)
        saved == SaveMessageResponsesToDatabase(
                     Append(messages, inboundMessage), conversations,
                     me.conversation_id, messageResponse)
        call == [SlackCalled(me.data.user_id) EXCEPT
                    !.is_admin = me.user.is_admin,
                    !.found = me.conversation_id # Undefined,
                    !.conversation_id =
                        IF me.conversation_id = Undefined THEN ""
                        ELSE me.conversation_id,
                    !.interrupted = me.interrupted,
                    !.contact_id = me.contact_id,
                    !.aiOps = IF answered THEN <<"handleSingleMessageForOpenAI">>
                              ELSE <<>>,
                    !.posts = IF answered
                              THEN <<JoinTexts(me.texts) \o CallToAction>>
                              ELSE <<>>]
    IN  /\ me.pc = "persist"
        /\ IF me.conversation_id = Undefined
           THEN /\ Step(p, "persist", [me EXCEPT !.pc = "done"])
                /\ last' = call
                /\ UNCHANGED <<conversations, messages>>
           ELSE /\ Len(messages) + 1 + Len(me.texts) <= MaxMessages
                /\ Step(p, "persist", [me EXCEPT !.pc = "done",
                                                 !.inbound = inboundMessage,
                                                 !.outbound = messageResponse])
                /\ conversations' = saved.conversations
                /\ messages' = saved.messages
                /\ last' = [call EXCEPT !.inbound = inboundMessage,
                                        !.saved = TRUE,
                                        !.outbound = messageResponse]
        /\ UNCHANGED <<clock, contacts, threads>>

NextSlackRace ==
    \E p \in Procs :
        \/ \E data \in SlackBotEvents, slackUser \in SlackUsers :
              SlackReceive(p, data, slackUser) /\ UNCHANGED <<stripIn, stripOut>>
        \/ ContactSelect(p) /\ UNCHANGED <<stripIn, stripOut>>
        \/ ContactInsert(p) /\ UNCHANGED <<stripIn, stripOut>>
        \/ ConversationSelect(p) /\ UNCHANGED <<stripIn, stripOut>>
        \/ ConversationMark(p) /\ UNCHANGED <<stripIn, stripOut>>
        \/ ConversationInsert(p) /\ UNCHANGED <<stripIn, stripOut>>
        \/ \E run \in ShortRuns : SlackAnswer(p, run) /\ UNCHANGED <<stripIn, stripOut>>
        \/ SlackPersist(p) /\ UNCHANGED <<stripIn, stripOut>>

\* no Slack conversation yet, one contact of the web channel
InitSlackRace ==
    /\ clock = 0
    /\ conversations = [c \in ConvIds |-> NoRow]
    /\ contacts = [c \in ContIds |->
                      IF c = "cont_1"
                      THEN NewContact("org_1", Null, Null, Null, Null)
                      ELSE NoContact]
    /\ messages = <<>>
    /\ threads = [t \in ThreadIds |-> <<>>]
    /\ last = NoCall
    /\ stripIn = NoStrip
    /\ stripOut = <<>>
    /\ inflight = NoInflight

SpecSlackRace == InitSlackRace /\ [][NextSlackRace]_vars

\* ------------------------------------- sendMessage, one await at a time
\* sendMessage as the sequence of its awaits, for the invocations of Procs
\* running at once.  The provider runs one run of a thread at a time: a run
\* is one step.
SendDone(p, call) ==
    /\ last' = call
    /\ inflight' = [inflight EXCEPT ![p].pc = "done"]

SendCalled(me) ==
    [NoCall EXCEPT !.op = "sendMessage",
                   !.conversation_id = me.data.conversation_id,
                   !.creator = me.data.creator,
                   !.found = me.contact_id # Undefined,
                   !.interrupted = me.interrupted,
                   !.contact_id = IF me.contact_id = Undefined THEN ""
                                  ELSE me.contact_id,
                   !.inbound = me.inbound,
                   !.run = me.run]

\* the positions on the thread of the messages lines 117-134 return
TakenPositions(thread) ==
    LET data == MessagesListAll(thread)
        at == Reverse([i \in DOMAIN thread |-> i])
        n == Len(SinceLastUser(data))
    IN  {at[i] : i \in {j \in 1..n : IsText(data[j])}}

\* lines 25-53: the SELECT of the conversation; newMessageRequest
SendReceive(p, request) ==
    LET row == conversations[request.conversation_id]
        me == [NoProc EXCEPT
                  !.data = request,
                  !.interrupted = row.exists /\ row.interrupted,
                  !.contact_id = IF row.exists THEN row.contact_id ELSE Undefined,
                  !.inbound = MessageResponse(request.conversation_id,
                                              request.message, request.creator,
                                              clock)]
    IN  /\ inflight[p].pc = "idle"
        /\ IF ~row.exists
           THEN /\ last' = Failure([SendCalled([me EXCEPT !.inbound = NoMessage])
                                       EXCEPT !.threw = TRUE])
                /\ inflight' = [inflight EXCEPT ![p] = [me EXCEPT !.pc = "done"]]
           ELSE /\ Step(p, "idle",
                        [me EXCEPT !.pc = IF Gated(row.interrupted, request.creator)
                                          THEN "save_gated" ELSE "create"])
                /\ UNCHANGED last
        /\ UNCHANGED <<clock, conversations, contacts, messages, threads>>

\* lines 55-61
SendSaveGated(p) ==
    LET me == inflight[p]
        save == SaveMessageToDatabase(messages, conversations, me.inbound,
                                      NoResponses, TRUE, TRUE)
    IN  /\ me.pc = "save_gated"
        /\ Len(messages) < MaxStored
        /\ messages' = save.messages
        /\ conversations' = save.conversations
        /\ SendDone(p, [SendCalled(me) EXCEPT !.saved = TRUE, !.status = 200])
        /\ UNCHANGED <<clock, contacts, threads>>

\* lines 63-70: messages.create
SendCreate(p) ==
    LET me == inflight[p]
        thread_id == ThreadIdOf(me.data.conversation_id)
    IN  /\ me.pc = "create"
        /\ Len(threads[thread_id]) < MaxThread
        /\ Step(p, "create", [me EXCEPT !.pc = "run"])
        /\ threads' = [threads EXCEPT ![thread_id] =
                          CreateUserMessage(@, me.data.message, clock)]
        /\ UNCHANGED <<clock, conversations, contacts, messages, last>>

\* lines 72-115 and 135-143: createAndPoll and the tool round
SendRun(p, script) ==
    LET me == inflight[p]
        thread_id == ThreadIdOf(me.data.conversation_id)
        thread == AppendReplies(threads[thread_id], script.replies, clock)
        run == FinalStatus(script)
        after == [me EXCEPT !.run = run,
                            !.own = (Len(threads[thread_id]) + 1)..Len(thread)]
    IN  /\ me.pc = "run"
        /\ Len(thread) <= MaxThread
        /\ clock + SumDelays(script.replies) <= MaxClock
        /\ clock' = clock + SumDelays(script.replies)
        /\ threads' = [threads EXCEPT ![thread_id] = thread]
        /\ contacts' = ContactsAfterRun(contacts, me.contact_id, script)
        /\ IF RunCompleted(run)
           THEN /\ inflight' = [inflight EXCEPT ![p] = [after EXCEPT !.pc = "list"]]
                /\ UNCHANGED last
           ELSE /\ last' = Failure(SendCalled(after))
                /\ inflight' = [inflight EXCEPT ![p] = [after EXCEPT !.pc = "done"]]
        /\ UNCHANGED <<conversations, messages>>

\* lines 117-134: messages.list and the cut at the last user message
SendList(p) ==
    LET me == inflight[p]
        thread == threads[ThreadIdOf(me.data.conversation_id)]
    IN  /\ Step(p, "list",
                [me EXCEPT !.pc = "save",
                           !.taken = TakenPositions(thread),
                           !.outbound = CollectReplies(thread,
                                                       me.data.conversation_id)])
        /\ UNCHANGED <<clock, conversations, contacts, messages, threads, last>>

\* lines 145-151: saveMessageToDatabase and the response
SendSave(p) ==
    LET me == inflight[p]
        save(accepts) ==
            SaveMessageToDatabase(messages, conversations, me.inbound,
                                  Responses(me.outbound), FALSE, accepts)
        call == [SendCalled(me) EXCEPT !.outbound = me.outbound, !.saved = TRUE]
    IN  /\ me.pc = "save"
        /\ Len(messages) + 1 + Len(me.outbound) <= MaxStored
        /\ \E accepts \in IF me.outbound = <<>> THEN BOOLEAN ELSE {TRUE} :
              /\ messages' = save(accepts).messages
              /\ conversations' = save(accepts).conversations
              /\ SendDone(p, IF save(accepts).rejected
                             THEN Failure([call EXCEPT !.threw = TRUE])
                             ELSE [call EXCEPT !.status = 200, !.hasBody = TRUE,
                                               !.body = me.outbound])
        /\ UNCHANGED <<clock, contacts, threads>>

NextSendRace ==
    \E p \in Procs :
        \/ \E request \in Requests :
              SendReceive(p, request) /\ UNCHANGED <<stripIn, stripOut>>
        \/ SendSaveGated(p) /\ UNCHANGED <<stripIn, stripOut>>
        \/ SendCreate(p) /\ UNCHANGED <<stripIn, stripOut>>
        \/ \E script \in FaultScripts :
              SendRun(p, script) /\ UNCHANGED <<stripIn, stripOut>>
        \/ SendList(p) /\ UNCHANGED <<stripIn, stripOut>>
        \/ SendSave(p) /\ UNCHANGED <<stripIn, stripOut>>

\* one open conversation of the web channel, nothing said yet
InitSendRace ==
    /\ clock = 0
    /\ conversations = [c \in ConvIds |->
                           IF c = "conv_1" THEN WebConversation("OPEN") ELSE NoRow]
    /\ contacts = [c \in ContIds |->
                      IF c = "cont_1"
                      THEN NewContact("org_1", Null, Null, Null, Null)
                      ELSE NoContact]
    /\ messages = <<>>
    /\ threads = [t \in ThreadIds |-> <<>>]
    /\ last = NoCall
    /\ stripIn = NoStrip
    /\ stripOut = <<>>
    /\ inflight = NoInflight

SpecSendRace == InitSendRace /\ [][NextSendRace]_vars

\* ------------------------------------------------- the citation stripper
\* Message texts and annotation texts, character by character
Chars == {"a", "b"}
StripTexts == SeqsUpTo(Chars, MaxTextLen)
AnnotationTexts == SeqsUpTo(Chars, 2) \ {<<>>}
StripMessages ==
    {ThreadMessage("assistant", "text", t, a, 0) :
        t \in StripTexts, a \in SeqsUpTo(AnnotationTexts, MaxAnnotations)}

InitStrip ==
    /\ clock = 0
    /\ conversations = [c \in ConvIds |->
                           IF c = "conv_1" THEN WebConversation("OPEN") ELSE NoRow]
    /\ contacts = [c \in ContIds |->
                      IF c = "cont_1"
                      THEN NewContact("org_1", Null, Null, Null, Null)
                      ELSE NoContact]
    /\ messages = <<>>
    /\ threads = [t \in ThreadIds |-> <<>>]
    /\ last = NoCall
    /\ stripIn \in StripMessages
    /\ stripOut = <<>>
    /\ inflight = NoInflight

\* processOpenAIMessage on the message, whose text then is the stripped one
StripPass ==
    /\ Len(stripOut) < MaxPasses
    /\ LET response == ProcessOpenAIMessage(stripIn, "conv_1")
       IN  /\ stripOut' = Append(stripOut, response.message)
           /\ stripIn' = [stripIn EXCEPT !.value = response.message]
    /\ UNCHANGED <<sysvars, inflight>>

NextStrip == StripPass

SpecStrip == InitStrip /\ [][NextStrip]_vars

\* =================================================================== claims
IsSendMessage(call) == call.op = "sendMessage"

\* C1: in sendMessage, an inbound message of any creator on a conversation
\* whose interrupted flag is true performs no assistant-client operation: no
\* message is appended to the thread, no run is started, no tool outputs
\* are submitted.
C1_InterruptedNeverCallsAssistant ==
    [][(/\ IsSendMessage(last')
        /\ conversations[last'.conversation_id].exists
        /\ conversations[last'.conversation_id].interrupted)
       => /\ last'.aiOps = <<>>
          /\ last'.tool_outputs = <<>>
          /\ threads' = threads
          /\ contacts' = contacts]_vars

C1_Witness ==
    /\ IsSendMessage(last)
    /\ last.interrupted
    /\ last.creator = "CONTACT"
    /\ last.status = 200

\* C2: a sendMessage call with creator USER on an existing conversation,
\* interrupted or not, leaves the interrupted flag true, persists the inbound
\* message, makes no assistant call and returns no outbound message.
C2_UserMessageInterrupts ==
    [][(/\ IsSendMessage(last')
        /\ last'.creator = "USER"
        /\ conversations[last'.conversation_id].exists)
       => /\ conversations'[last'.conversation_id].interrupted
          /\ last'.inbound.creator = "USER"
          /\ last'.inbound.conversation_id = last'.conversation_id
          /\ messages' = Append(messages, last'.inbound)
          /\ last'.aiOps = <<>>
          /\ threads' = threads
          /\ last'.status = 200
          /\ last'.body = <<>>]_vars

C2_Witness ==
    /\ IsSendMessage(last)
    /\ last.creator = "USER"
    /\ last.found
    /\ ~last.interrupted
    /\ conversations[last.conversation_id].interrupted
    /\ last.inbound \in Range(messages)

\* C3: when the run of sendMessage ends in a status other than completed
\* (failed, cancelled, expired, or requires_action again), the handler answers
\* the generic 500 and neither the messages table nor the conversation row
\* changes.
C3_FailedRunPersistsNothing ==
    [][(/\ IsSendMessage(last')
        /\ last'.run \notin {"none", "completed"})
       => /\ last'.status = 500
          /\ last'.error = GenericError
          /\ last'.body = <<>>
          /\ messages' = messages
          /\ conversations' = conversations]_vars

C3_Witness ==
    /\ IsSendMessage(last)
    /\ last.run1 = "requires_action"
    /\ last.run = "requires_action"
    /\ last.tool_outputs # <<>>
    /\ last.status = 500

\* C4: on every successful sendMessage call the created_at values of the
\* outbound messages, in the order returned and persisted, are strictly
\* increasing and each is strictly greater than the inbound created_at.
C4_OutboundTimestampsIncrease ==
    (IsSendMessage(last) /\ last.status = 200 /\ last.hasBody)
    => /\ \A i \in DOMAIN last.body :
            last.body[i].created_at > last.inbound.created_at
       /\ \A i, j \in DOMAIN last.body :
            i < j => last.body[i].created_at < last.body[j].created_at

C10_NotFoundIs4xx ==
    (IsSendMessage(last) /\ ~last.found)
    => /\ last.status \in 400..499
       /\ last.aiOps = <<>>
       /\ ~last.saved

\* ------------------------------------------------------------ tool round
IsSave(tc) == tc.name = "save_contact_details"
Parsed(tc) == JSONParse(tc.arguments)
Count(seq, x) == Cardinality({i \in DOMAIN seq : seq[i] = x})

\* C5: when a run reaches requires_action, the single resubmission holds
\* exactly one output per tool call id, no omission and no duplicate, also for
\* a save_contact_details call whose arguments do not parse or whose contact
\* update fails: its output is the failure string, and nothing is thrown.
C5_OneOutputPerToolCall ==
    (IsSendMessage(last) /\ last.run1 = "requires_action")
    => /\ \A tc \in Range(last.tool_calls) :
            Cardinality({i \in DOMAIN last.tool_outputs :
                            last.tool_outputs[i].tool_call_id = tc.id}) = 1
       /\ Len(last.tool_outputs) = Len(last.tool_calls)
       /\ \A i \in DOMAIN last.tool_calls :
            (IsSave(last.tool_calls[i])
             /\ (~Parsed(last.tool_calls[i]).ok \/ ~last.executes[i]))
            => last.tool_outputs[i] =
                  [tool_call_id |-> last.tool_calls[i].id, output |-> CantParse]
       /\ Count(last.aiOps, "runs.submitToolOutputsAndPoll") = 1
       /\ ~last.threw
       /\ last.run # "none"

C5_Witness ==
    /\ IsSendMessage(last)
    /\ Len(last.tool_calls) = 2
    /\ \E i, j \in DOMAIN last.tool_calls :
          /\ IsSave(last.tool_calls[i]) /\ ~Parsed(last.tool_calls[i]).ok
          /\ IsSave(last.tool_calls[j]) /\ Parsed(last.tool_calls[j]).ok
          /\ Parsed(last.tool_calls[j]).value # EmptyObj
          /\ ~last.executes[j]
    /\ Len(last.tool_outputs) = 2

WrittenByAnother(tool_calls, executes, i, f) ==
    \E j \in DOMAIN tool_calls :
        /\ j # i
        /\ Writes(tool_calls[j], executes[j])
        /\ Parsed(tool_calls[j]).value[f] # Undefined

\* C8 as claimed: for a save_contact_details call with a parseable payload
\* the contact record is updated with the payload's fields, the tool output is
\* the JSON serialisation of the parsed payload, and the run is resumed and
\* polled.
C8_ParseablePayloadIsSaved ==
    [][(IsSendMessage(last') /\ last'.run1 = "requires_action")
       => \A i \in DOMAIN last'.tool_calls :
            LET tc == last'.tool_calls[i]
            IN  (IsSave(tc) /\ Parsed(tc).ok)
                => /\ last'.tool_outputs[i].output = JSONStringify(Parsed(tc).value)
                   /\ \A f \in Fields :
                        Parsed(tc).value[f] # Undefined
                        => \/ contacts'[last'.contact_id][f] = Parsed(tc).value[f]
                           \/ WrittenByAnother(last'.tool_calls, last'.executes, i, f)
                   /\ Count(last'.aiOps, "runs.submitToolOutputsAndPoll") = 1
                   /\ last'.run # "none"]_vars

\* C8 amended: for a save_contact_details call with a parseable payload whose
\* UPDATE of the contact executes, the contact record holds the payload's
\* fields (a field that another call of the same round also writes holds one
\* of the values written), every column no call writes is unchanged, the tool
\* output is the JSON serialisation of the parsed payload, and the run is
\* resumed and polled; when the UPDATE is rejected the output is the failure
\* string.
C8_ExecutedPayloadIsSaved ==
    [][(IsSendMessage(last') /\ last'.run1 = "requires_action")
       => /\ \A i \in DOMAIN last'.tool_calls :
               LET tc == last'.tool_calls[i]
               IN  /\ (IsSave(tc) /\ Parsed(tc).ok /\ last'.executes[i])
                      => /\ last'.tool_outputs[i].output =
                                JSONStringify(Parsed(tc).value)
                         /\ \A f \in Fields :
                              Parsed(tc).value[f] # Undefined
                              => \/ contacts'[last'.contact_id][f] = Parsed(tc).value[f]
                                 \/ WrittenByAnother(last'.tool_calls,
                                                     last'.executes, i, f)
                   /\ (IsSave(tc) /\ Parsed(tc).ok /\ ~last'.executes[i])
                      => last'.tool_outputs[i].output = CantParse
          /\ \A f \in Fields :
               (\A i \in DOMAIN last'.tool_calls :
                    ~(Writes(last'.tool_calls[i], last'.executes[i])
                      /\ Parsed(last'.tool_calls[i]).value[f] # Undefined))
               => contacts'[last'.contact_id][f] = contacts[last'.contact_id][f]
          /\ \A c \in ContIds : c # last'.contact_id => contacts'[c] = contacts[c]
          /\ Count(last'.aiOps, "runs.submitToolOutputsAndPoll") = 1
          /\ last'.run # "none"]_vars

C8_Witness ==
    /\ IsSendMessage(last)
    /\ last.run1 = "requires_action"
    /\ last.run = "completed"
    /\ \E i \in DOMAIN last.tool_calls :
          /\ IsSave(last.tool_calls[i])
          /\ last.tool_calls[i].arguments =
                JsonText([EmptyObj EXCEPT !.email = "a@b.com"], TRUE)
          /\ last.executes[i]
          /\ last.tool_outputs[i].output =
                JsonText([EmptyObj EXCEPT !.email = "a@b.com"], FALSE)
    /\ contacts[last.contact_id].email = "a@b.com"
    /\ contacts[last.contact_id].name = "Bob"

\* C6: on the Slack bot event path, a message of a non-admin (CONTACT) that
\* arrives on a conversation whose interrupted flag is already true triggers
\* no assistant run and posts no assistant reply to the channel.
C6_InterruptedSlackNotAnswered ==
    (/\ last.op = "slackBot"
     /\ ~last.is_admin
     /\ last.found
     /\ last.interrupted)
    => /\ last.aiOps = <<>>
       /\ \A i \in DOMAIN last.posts : last.posts[i] = Apology

\* C9: citation stripping is idempotent: stripping text that was already
\* stripped, with the same annotations, returns that text unchanged.
C9_StrippingIdempotent ==
    Len(stripOut) >= 2 => stripOut[2] = stripOut[1]

IsSlack(call) == call.op \in {"slackBot", "slackSlash"}

\* C12: in the Slack bot handler a message of a Slack admin never inserts a
\* conversation row: when a conversation exists for the thread it is only
\* marked interrupted and the inbound message is saved with creator USER;
\* when none exists, no conversation and no message is persisted; in both
\* cases no assistant run is made and nothing is posted.
C12_AdminNeverCreatesConversation ==
    [][(last'.op = "slackBot" /\ last'.is_admin /\ ~last'.threw)
       => /\ \A c \in ConvIds : conversations'[c].exists = conversations[c].exists
          /\ last'.aiOps = <<>>
          /\ last'.posts = <<>>
          /\ IF last'.found
             THEN /\ conversations' =
                        [conversations EXCEPT
                            ![last'.conversation_id].interrupted = TRUE]
                  /\ last'.inbound.creator = "USER"
                  /\ last'.inbound.conversation_id = last'.conversation_id
                  /\ messages' = Append(messages, last'.inbound)
             ELSE /\ conversations' = conversations
                  /\ messages' = messages]_vars

C12_Witness ==
    /\ last.op = "slackBot"
    /\ last.is_admin
    /\ last.found
    /\ ~last.interrupted
    /\ conversations[last.conversation_id].interrupted
    /\ last.inbound.creator = "USER"
    /\ last.inbound \in Range(messages)

\* C13: in both Slack handlers the i-th outbound message (0-based, in the
\* order the assistant client returned them) is persisted with created_at =
\* inbound.created_at + 1 + i and with the conversation_id of the resolved
\* conversation, after the inbound message, for every outbound length.
C13_SlackOutboundStamped ==
    [][(IsSlack(last') /\ last'.saved)
       => /\ \A i \in DOMAIN last'.outbound :
               /\ last'.outbound[i].created_at =
                     last'.inbound.created_at + 1 + (i - 1)
               /\ last'.outbound[i].conversation_id = last'.conversation_id
               /\ last'.outbound[i].creator = "AGENT"
          /\ last'.inbound.conversation_id = last'.conversation_id
          /\ messages' = (messages \o <<last'.inbound>>) \o last'.outbound]_vars

C13_Witness ==
    /\ last.op = "slackSlash"
    /\ last.saved
    /\ Len(last.outbound) = 2
    /\ last.outbound[2].created_at = last.inbound.created_at + 2
    /\ last.outbound[2] \in Range(messages)

\* C11: in both Slack handlers, whenever a step fails (organisation lookup,
\* Slack user lookup, assistant run, posting the reply, persistence) the
\* generic apology is posted to the originating channel or response URL and
\* the handler completes without the error reaching the event caller.
C11_SlackFailurePostsApology ==
    (IsSlack(last) /\ last.threw)
    => /\ Apology \in Range(last.posts)
       /\ ~last.propagated

BatchMax(call) ==
    LET stamps == {call.inbound.created_at}
                  \cup {call.outbound[i].created_at : i \in DOMAIN call.outbound}
    IN  CHOOSE m \in stamps : \A x \in stamps : x <= m

\* C14: after a successful assistant run in sendMessage the inbound message
\* and all outbound messages are inserted in one batch, the conversation's
\* status is OPEN and its last_message_at is the maximum created_at over the
\* whole batch, the inbound message included, also for an empty outbound
\* sequence.
C14_LastMessageAtIsBatchMax ==
    (IsSendMessage(last) /\ last.status = 200 /\ last.hasBody)
    => /\ conversations[last.conversation_id].status = "OPEN"
       /\ conversations[last.conversation_id].last_message_at = BatchMax(last)

\* C15: persistence of an exchange is all-or-nothing: when the batch insert
\* of messages in saveMessageToDatabase fails, the conversation's
\* last_message_at, status and interrupted are not modified either.
C15_InsertFailureCommitsNothing ==
    [][(IsSendMessage(last') /\ last'.failed = "insert")
       => /\ messages' = messages
          /\ conversations'[last'.conversation_id].last_message_at
                = conversations[last'.conversation_id].last_message_at
          /\ conversations'[last'.conversation_id].status
                = conversations[last'.conversation_id].status
          /\ conversations'[last'.conversation_id].interrupted
                = conversations[last'.conversation_id].interrupted]_vars

IsHandler(call) == call.op = "handleMessageForOpenAI"

\* the text assistant messages written since the most recent user message
EmittedSinceLastUser(thread) ==
    LET users == {i \in DOMAIN thread : thread[i].role = "user"}
        from == IF users = {} THEN 0
                ELSE CHOOSE i \in users : \A j \in users : j <= i
    IN  SelectSeq(SubSeq(thread, from + 1, Len(thread)), IsText)

\* C16: on a completed run the outbound sequence holds every text assistant
\* message emitted since the most recent user message of the thread and
\* nothing else, for any number of such messages (fetch limited to 5 in
\* handleMessageForOpenAI, unlimited in sendMessage).
C16_OutboundIsEveryReply ==
    ((IsSendMessage(last) \/ IsHandler(last)) /\ last.run = "completed")
    => LET emitted ==
               EmittedSinceLastUser(threads[ThreadIdOf(last.conversation_id)])
       IN  /\ Len(last.outbound) = Len(emitted)
           /\ \A m \in Range(emitted) :
                 Cardinality({i \in DOMAIN last.outbound :
                                 last.outbound[i].message = m.value}) =
                 Cardinality({i \in DOMAIN emitted : emitted[i].value = m.value})

ErrorOutcome(call) ==
    IF IsHandler(call)
    THEN call.threw /\ call.error = HandlerError
    ELSE call.status = 500 /\ call.error = GenericError /\ call.body = <<>>

NoCallWrites(call) ==
    \A i \in DOMAIN call.tool_calls : ~Writes(call.tool_calls[i], call.executes[i])

\* C17 as claimed: tool outputs are submitted at most once per assistant
\* invocation, and a run that is again in requires_action after the
\* resubmission is a failure: error outcome, no replies returned, nothing
\* persisted.
C17_SecondRoundPersistsNothing ==
    [][(IsSendMessage(last') \/ IsHandler(last'))
       => /\ Count(last'.aiOps, "runs.submitToolOutputsAndPoll") <= 1
          /\ (last'.run1 = "requires_action" /\ last'.run = "requires_action")
             => /\ ErrorOutcome(last')
                /\ last'.outbound = <<>>
                /\ Count(last'.aiOps, "messages.list") = 0
                /\ messages' = messages
                /\ conversations' = conversations
                /\ contacts' = contacts]_vars

\* C17 amended: tool outputs are submitted at most once per assistant
\* invocation, and a run that is again in requires_action after the
\* resubmission is a failure: error outcome, no replies returned, no message
\* stored and no conversation row changed; the contact updates made by the
\* save_contact_details calls of the one round stay committed.
C17_SecondRoundIsFailure ==
    [][(IsSendMessage(last') \/ IsHandler(last'))
       => /\ Count(last'.aiOps, "runs.submitToolOutputsAndPoll") <= 1
          /\ (last'.run1 = "requires_action" /\ last'.run = "requires_action")
             => /\ ErrorOutcome(last')
                /\ last'.outbound = <<>>
                /\ Count(last'.aiOps, "messages.list") = 0
                /\ Count(last'.aiOps, "runs.submitToolOutputsAndPoll") = 1
                /\ messages' = messages
                /\ conversations' = conversations
                /\ NoCallWrites(last') => contacts' = contacts
                /\ \A c \in ContIds :
                      c # last'.contact_id => contacts'[c] = contacts[c]]_vars

C17_Witness ==
    /\ IsSendMessage(last)
    /\ last.run1 = "requires_action"
    /\ last.run = "requires_action"
    /\ last.status = 500
    /\ messages = <<>>
    /\ \E i \in DOMAIN last.tool_calls :
          Writes(last.tool_calls[i], last.executes[i])
    /\ contacts[last.contact_id].email = "a@b.com"

IsOtherTool(tc) == tc.name # "save_contact_details"

\* C20: a tool call whose function name is not save_contact_details is
\* answered with the fixed success acknowledgement and changes no contact: a
\* round of such calls only leaves the contacts as they were, and in a mixed
\* round every changed column holds a value written by a save_contact_details
\* call.
C20_OtherToolIsAcknowledged ==
    [][((IsSendMessage(last') \/ IsHandler(last'))
        /\ last'.run1 = "requires_action")
       => /\ Len(last'.tool_outputs) = Len(last'.tool_calls)
          /\ \A i \in DOMAIN last'.tool_calls :
                IsOtherTool(last'.tool_calls[i])
                => /\ last'.tool_outputs[i].tool_call_id = last'.tool_calls[i].id
                   /\ last'.tool_outputs[i].output = SuccessAck
          /\ (\A i \in DOMAIN last'.tool_calls : IsOtherTool(last'.tool_calls[i]))
             => contacts' = contacts
          /\ \A c \in ContIds : \A f \in Fields :
                contacts'[c][f] # contacts[c][f]
                => /\ c = last'.contact_id
                   /\ \E i \in DOMAIN last'.tool_calls :
                         /\ ~IsOtherTool(last'.tool_calls[i])
                         /\ JSONParse(last'.tool_calls[i].arguments).ok
                         /\ JSONParse(last'.tool_calls[i].arguments).value[f]
                               = contacts'[c][f]]_vars

C20_Witness ==
    /\ IsSendMessage(last)
    /\ last.run1 = "requires_action"
    /\ Len(last.tool_calls) = 2
    /\ IsOtherTool(last.tool_calls[1])
    /\ last.tool_outputs[1].output = SuccessAck
    /\ ~IsOtherTool(last.tool_calls[2])
    /\ last.tool_outputs[2].output # CantParse
    /\ last.status = 200

\* C19 as claimed: in every reachable state every conversation has
\* last_message_at >= created_at.
C19_LastMessageAtNotBeforeCreation ==
    \A c \in ConvIds :
        conversations[c].exists
        => conversations[c].last_message_at >= conversations[c].created_at

ByHuman(call) ==
    \/ IsSendMessage(call) /\ call.creator = "USER"
    \/ call.op = "slackBot" /\ call.is_admin

\* C18: the interrupted flag of a conversation is monotone.  No handler takes
\* it from true to false, a conversation is created with the flag false, and
\* the flag goes from false to true only in the handling of a message of
\* creator USER or of a Slack administrator addressed to that conversation.
C18_InterruptedIsMonotone ==
    [][\A c \in ConvIds :
          /\ conversations[c].exists
             => /\ conversations'[c].exists
                /\ conversations[c].interrupted => conversations'[c].interrupted
                /\ (~conversations[c].interrupted /\ conversations'[c].interrupted)
                   => ByHuman(last') /\ last'.conversation_id = c
          /\ (~conversations[c].exists /\ conversations'[c].exists)
             => ~conversations'[c].interrupted]_vars

C18_Witness ==
    /\ IsSendMessage(last)
    /\ last.creator = "CONTACT"
    /\ last.saved
    /\ conversations[last.conversation_id].interrupted
    /\ conversations[last.conversation_id].channel # "WEB"

\* C23 as claimed: for one Slack bot event at most one message is posted to
\* the channel, the assistant reply or the generic apology and never both; a
\* persistence failure after the reply was posted posts no apology.
C23_AtMostOnePost ==
    last.op = "slackBot"
    => /\ Len(last.posts) <= 1
       /\ ~(\E i, j \in DOMAIN last.posts :
               last.posts[i] = Apology /\ last.posts[j] # Apology)

OneContactPerSlackId ==
    \A c, d \in ContIds :
        (/\ contacts[c].exists /\ contacts[d].exists
         /\ contacts[c].slack_id # Null
         /\ contacts[c].slack_id = contacts[d].slack_id) => c = d

OneConversationPerThread ==
    \A c, d \in ConvIds :
        (/\ conversations[c].exists /\ conversations[d].exists
         /\ conversations[c].channel = "SLACK"
         /\ conversations[d].channel = "SLACK"
         /\ conversations[c].channel_id = conversations[d].channel_id) => c = d

\* C21 as claimed: under any interleaving of Slack events at most one contact
\* row exists per Slack sender id and at most one conversation row per thread
\* identifier, also when two events of the same unseen sender and thread are
\* processed at once.
C21_LazyCreationKeepsIdentitiesUnique ==
    OneContactPerSlackId /\ OneConversationPerThread

\* the assistant messages an invocation returned and stored
Persisted(p) ==
    IF inflight[p].pc = "done" /\ inflight[p].run = "completed"
    THEN inflight[p].taken ELSE {}

SameConversation(p, q) ==
    /\ inflight[p].pc # "idle"
    /\ inflight[q].pc # "idle"
    /\ inflight[p].data.conversation_id = inflight[q].data.conversation_id

\* C22 as claimed: under any interleaving of two sendMessage invocations on
\* the same non-interrupted conversation each assistant message of the thread
\* is returned and stored by at most one invocation, and the outbound
\* sequence of an invocation holds only replies to its own inbound message.
C22_RepliesGoToTheirOwnInvocation ==
    \A p, q \in Procs :
        (p # q /\ SameConversation(p, q)
         /\ ~inflight[p].interrupted /\ ~inflight[q].interrupted)
        => /\ Persisted(p) \cap Persisted(q) = {}
           /\ inflight[p].taken \subseteq inflight[p].own

====
